---- MODULE Spec2Model ----
(***************************************************************************)
(* Ldeep.get_memberships (src/ldeep/__main__.py): the group memberships of *)
(* an account, optionally resolved recursively by the nested function      *)
(* lookup_groups.  The directory behind self.engine.query is an input: a   *)
(* finite set of entries, each with an ordered memberOf list and an        *)
(* optional primaryGroupID.  The Python call stack of lookup_groups is the *)
(* variable stack; one action is one query, one iteration of a memberOf    *)
(* loop, or one primaryGroupID block.                                      *)
(***************************************************************************)
EXTENDS Integers, Sequences, FiniteSets, TLC

\* ------------------------------------------------------------------ bounds
NumDN == 4          \* entries of the directory, named 1..NumDN
MaxEdges == 3       \* memberOf values in the whole directory
MaxPrimary == 1     \* entries that carry a primaryGroupID

DNs == 1..NumDN
MaxDepth == NumDN + 1   \* cap of the call stack (never reached by the code)

\* ------------------------------------------------- constants of the source
Account == 1        \* the entry kwargs["account"] names
UnsetPid == 0       \* primaryGroupID not set: ldap3 returns [] (falsy)
IndentStep == 4     \* lookup_groups(group_dn, 4, ...) / leading_sp + 4

\* RIDs a primaryGroupID can hold; NumDN + 1 is the RID of no entry
Pids == 1..(NumDN + 1)

\* len(group_dn): the entries have names of different lengths
DnLen(dn) == 10 + 3 * dn

VARIABLES
    memberOf,         \* directory: entry -> its memberOf values, in record order
    primaryGroupID,   \* directory: entry -> its primaryGroupID, or UnsetPid
    accountExists,    \* directory: ACCOUNT_IN_GROUPS_FILTER(account) matches an entry
    recursive,        \* kwargs.get("recursive", False)
    pc,               \* position of get_memberships: start, memberOf, done, raised
    ti,               \* get_memberships: index of the next memberOf value of the account
    stack,            \* frames of lookup_groups, innermost last
    already_printed,  \* the set already_printed (already_treated inside lookup_groups)
    output,           \* the lines printed so far
    queries,          \* the queries issued so far
    filter_,          \* list_delegations: kwargs.get("filter", "all")
    verbose,          \* kwargs.get("verbose", False)
    entries,          \* list_delegations: the records the query returns
    ldpc,             \* position of list_delegations: idle, start, loop, aces, done, raised
    ei,               \* list_delegations: index of the entry being processed
    ai,               \* list_delegations: index of the next ACE of the entry
    edges,            \* list_delegations: the lines printed so far
    calls,            \* list_delegations: calls made to the collaborators so far
    displayed,        \* the records self.display writes out
    results,          \* list_trusts: the records the query yields
    lazy,             \* list_trusts: the query returns a single-pass generator, not a list
    ltpc,             \* position of list_trusts: idle, start, loop, print, done, raised
    ri,               \* list_trusts: index of the next record of a loop
    trusts,           \* list_trusts: the list trusts
    printed,          \* list_trusts: the records printed field by field
    file,             \* misc_enum_users: the characters of the file kwargs["file"]
    existing,         \* misc_enum_users: the names engine.user_exists is true for
    eupc,             \* position of misc_enum_users: idle, start, loop, done
    offset,           \* misc_enum_users: the characters of the file read so far
    tried,            \* misc_enum_users: the arguments of engine.user_exists, in order
    found,            \* misc_enum_users: the lines printed
    commands,         \* misc_all: the list_ commands self.get_commands gives
    mapc,             \* position of misc_all: idle, start, plain, verbose, reset, done, raised
    ci,               \* misc_all: index of the command of the loop
    fi,               \* misc_all: index of the filter value of the loop
    kwverbose,        \* misc_all: kwargs["verbose"]
    stdout,           \* misc_all: the file sys.stdout writes to
    invoked           \* misc_all: the invocations getattr(self, method)(kwargs) so far

memberVars == <<memberOf, primaryGroupID, accountExists, recursive, pc, ti, stack,
                already_printed, output, queries>>

delegVars == <<filter_, entries, ldpc, ei, ai, edges, calls>>

trustVars == <<results, lazy, ltpc, ri, trusts, printed>>

enumVars == <<file, existing, eupc, offset, tried, found>>

allVars == <<commands, mapc, ci, fi, kwverbose, stdout, invoked>>

\* misc_enum_users and misc_all before they are called
MiscIdle ==
    /\ file = <<>> /\ existing = {} /\ eupc = "idle" /\ offset = 0
    /\ tried = <<>> /\ found = <<>>
    /\ commands = <<>> /\ mapc = "idle" /\ ci = 1 /\ fi = 1
    /\ kwverbose = FALSE /\ stdout = <<>> /\ invoked = <<>>

vars == <<memberOf, primaryGroupID, accountExists, recursive, pc, ti, stack,
          already_printed, output, queries,
          filter_, verbose, entries, ldpc, ei, ai, edges, calls, displayed,
          results, lazy, ltpc, ri, trusts, printed,
          file, existing, eupc, offset, tried, found,
          commands, mapc, ci, fi, kwverbose, stdout, invoked>>

dirVars == <<memberOf, primaryGroupID, accountExists, recursive>>

\* ------------------------------------------------------------- directories
EdgeSeqs == UNION {[1..n -> DNs \X DNs] : n \in 0..MaxEdges}

NoDuplicate(es) == \A i, j \in 1..Len(es) : es[i] = es[j] => i = j

\* the memberOf values of entry dn, in the order the edges were listed
RECURSIVE Targets(_, _)
Targets(es, dn) ==
    IF es = <<>> THEN <<>>
    ELSE IF Head(es)[1] = dn THEN <<Head(es)[2]>> \o Targets(Tail(es), dn)
         ELSE Targets(Tail(es), dn)

\* --------------------------------------------------------- query collaborator
\* self.engine.query(self.engine.PRIMARY_GROUP_ID(pid)): the dn of the entries
\* whose RID is pid (entry d has RID d)
PRIMARY_GROUP_ID(pid) == IF pid \in DNs THEN <<pid>> ELSE <<>>

Query(filter, arg, by) == [filter |-> filter, arg |-> arg, by |-> by]

\* ------------------------------------------------------------------ helpers
\* "{g:>{width}}".format(g=group_dn, width=...): leading spaces of the line
Pad(group_dn, width) ==
    IF width > DnLen(group_dn) THEN width - DnLen(group_dn) ELSE 0

\* a printed line: the DN, its leading spaces, and the index of the line of
\* the group being expanded when it was printed (0 at the top level)
Line(dn, pad, parent) == [dn |-> dn, pad |-> pad, parent |-> parent]

\* a call lookup_groups(dn, leading_sp, already_treated); line is the index
\* of the printed line of dn, i the index of the next memberOf value
Frame(dn, leading_sp, line) ==
    [dn |-> dn, leading_sp |-> leading_sp, line |-> line, ph |-> "call", i |-> 1]

\* if group_dn not in already_treated
NotTreatedAlways(group_dn, already_treated) == TRUE
NotTreated(group_dn, already_treated) == group_dn \notin already_treated

\* if "primaryGroupID" in result and result["primaryGroupID"]
PidTruthy(pid) == pid # UnsetPid

\* if "primaryGroupID" in result and result["primaryGroupID"] != []
PidNotEmptyList(pid) == pid # UnsetPid

\* for group_dn in result["memberOf"]: the i-th value, in record order
MemberAtSorted(values, i) ==
    CHOOSE v \in {values[k] : k \in 1..Len(values)} :
        Cardinality({values[k] : k \in 1..Len(values)} \cap 1..v) = i
MemberAt(values, i) == values[i]

\* already_treated.add(results[0]["dn"]) when PRIMARY_GROUP_ID(pid) has a result
WithPrimaryForgotten(already_treated, pid) == already_treated
WithPrimary(already_treated, pid) ==
    IF PRIMARY_GROUP_ID(pid) # <<>>
    THEN already_treated \cup {PRIMARY_GROUP_ID(pid)[1]}
    ELSE already_treated

\* already_treated.add(group_dn), before the call of lookup_groups
AddTreatedSkipped(already_treated, group_dn) == already_treated
AddTreated(already_treated, group_dn) == already_treated \cup {group_dn}

Top == stack[Len(stack)]
Pop == SubSeq(stack, 1, Len(stack) - 1)
SetTop(f) == [stack EXCEPT ![Len(stack)] = f]

\* ----------------------------------------------------------------- Init
Init ==
    /\ \E es \in EdgeSeqs :
          /\ NoDuplicate(es)
          /\ memberOf = [dn \in DNs |-> Targets(es, dn)]
    /\ \E holders \in SUBSET DNs :
          /\ Cardinality(holders) <= MaxPrimary
          /\ \E f \in [holders -> Pids] :
                primaryGroupID =
                    [dn \in DNs |-> IF dn \in holders THEN f[dn] ELSE UnsetPid]
    /\ accountExists \in BOOLEAN
    /\ ~accountExists =>
          memberOf[Account] = <<>> /\ primaryGroupID[Account] = UnsetPid
    /\ recursive \in BOOLEAN
    /\ pc = "start"
    /\ ti = 1
    /\ stack = <<>>
    /\ already_printed = {}
    /\ output = <<>>
    /\ queries = <<>>
    /\ filter_ = "all" /\ verbose = FALSE /\ entries = <<>>
    /\ ldpc = "idle" /\ ei = 1 /\ ai = 1
    /\ edges = <<>> /\ calls = <<>> /\ displayed = <<>>
    /\ results = <<>> /\ lazy = FALSE /\ ltpc = "idle" /\ ri = 1
    /\ trusts = <<>> /\ printed = <<>>
    /\ MiscIdle

\* ------------------------------------------------------ get_memberships
\* results = self.engine.query(ACCOUNT_IN_GROUPS_FILTER(account), ...)
\* for result in results:   (no record: the loop body never runs)
get_memberships_query ==
    /\ pc = "start"
    /\ queries' = Append(queries, Query("ACCOUNT_IN_GROUPS_FILTER", Account, "get_memberships"))
    /\ pc' = IF accountExists THEN "memberOf" ELSE "done"
    /\ UNCHANGED <<dirVars, ti, stack, already_printed, output>>

\* the frames the top-level loop pushes after printing group_dn
TopCallAlways(group_dn, line) == <<Frame(group_dn, IndentStep, line)>>
TopCall(group_dn, line) ==
    IF recursive THEN <<Frame(group_dn, IndentStep, line)>> ELSE <<>>

\* for group_dn in result["memberOf"]: print(group_dn); if recursive: ...
get_memberships_memberOf ==
    /\ pc = "memberOf"
    /\ stack = <<>>
    /\ ti <= Len(memberOf[Account])
    /\ LET group_dn == MemberAt(memberOf[Account], ti) IN
          /\ output' = Append(output, Line(group_dn, 0, 0))
          /\ already_printed' =
                IF recursive THEN AddTreated(already_printed, group_dn)
                ELSE already_printed
          /\ stack' = TopCall(group_dn, Len(output) + 1)
    /\ ti' = ti + 1
    /\ UNCHANGED <<dirVars, pc, queries>>

\* if "primaryGroupID" in result and result["primaryGroupID"] != []: ...
get_memberships_primaryGroup ==
    /\ pc = "memberOf"
    /\ stack = <<>>
    /\ ti > Len(memberOf[Account])
    /\ LET pid == primaryGroupID[Account] IN
          IF PidNotEmptyList(pid)
          THEN /\ queries' = Append(queries, Query("PRIMARY_GROUP_ID", pid, "get_memberships"))
               /\ output' =
                     IF PRIMARY_GROUP_ID(pid) # <<>>
                     THEN Append(output, Line(PRIMARY_GROUP_ID(pid)[1], 0, 0))
                     ELSE output
          ELSE UNCHANGED <<queries, output>>
    /\ pc' = "done"
    /\ UNCHANGED <<dirVars, ti, stack, already_printed>>

\* --------------------------------------------------------- lookup_groups
\* results = self.engine.query(self.engine.DISTINGUISHED_NAME(dn), ...)
lookup_groups_query ==
    /\ stack # <<>>
    /\ Top.ph = "call"
    /\ queries' = Append(queries, Query("DISTINGUISHED_NAME", Top.dn, "lookup_groups"))
    /\ stack' = SetTop([Top EXCEPT !.ph = "memberOf"])
    /\ UNCHANGED <<dirVars, pc, ti, already_printed, output>>

\* the leading_sp of the nested call
NestedIndentSame(leading_sp) == leading_sp
NestedIndent(leading_sp) == leading_sp + IndentStep

\* for group_dn in result["memberOf"]: if group_dn not in already_treated: ...
lookup_groups_memberOf ==
    /\ stack # <<>>
    /\ Top.ph = "memberOf"
    /\ Top.i <= Len(memberOf[Top.dn])
    /\ LET group_dn == MemberAt(memberOf[Top.dn], Top.i)
           next == [Top EXCEPT !.i = Top.i + 1]
       IN  IF NotTreated(group_dn, already_printed)
           THEN /\ Len(stack) < MaxDepth
                /\ output' = Append(output,
                       Line(group_dn,
                            Pad(group_dn, Top.leading_sp + DnLen(group_dn)),
                            Top.line))
                /\ already_printed' = AddTreated(already_printed, group_dn)
                /\ stack' = Append(SetTop(next),
                       Frame(group_dn, NestedIndent(Top.leading_sp), Len(output) + 1))
           ELSE /\ stack' = SetTop(next)
                /\ UNCHANGED <<already_printed, output>>
    /\ UNCHANGED <<dirVars, pc, ti, queries>>

\* if "primaryGroupID" in result and result["primaryGroupID"]: ...
\* return already_treated
lookup_groups_primaryGroup_printing ==
    /\ stack # <<>>
    /\ Top.ph = "memberOf"
    /\ Top.i > Len(memberOf[Top.dn])
    /\ LET pid == primaryGroupID[Top.dn] IN
          IF PidTruthy(pid)
          THEN /\ queries' = Append(queries, Query("PRIMARY_GROUP_ID", pid, "lookup_groups"))
               /\ already_printed' = WithPrimary(already_printed, pid)
               /\ output' =
                     IF PRIMARY_GROUP_ID(pid) # <<>>
                     THEN Append(output, Line(PRIMARY_GROUP_ID(pid)[1],
                                              Top.leading_sp, Top.line))
                     ELSE output
          ELSE UNCHANGED <<queries, already_printed, output>>
    /\ stack' = Pop
    /\ UNCHANGED <<dirVars, pc, ti>>
lookup_groups_primaryGroup ==
    /\ stack # <<>>
    /\ Top.ph = "memberOf"
    /\ Top.i > Len(memberOf[Top.dn])
    /\ LET pid == primaryGroupID[Top.dn] IN
          IF PidTruthy(pid)
          THEN /\ queries' = Append(queries, Query("PRIMARY_GROUP_ID", pid, "lookup_groups"))
               /\ already_printed' = WithPrimary(already_printed, pid)
          ELSE UNCHANGED <<queries, already_printed>>
    /\ stack' = Pop
    /\ UNCHANGED <<dirVars, pc, ti, output>>

\* ------------------------------------------------------------ QueryFailure
\* self.engine.query raises: no handler in get_memberships, the call ends
QueryFailure ==
    /\ \/ pc = "start"
       \/ pc = "memberOf" /\ stack # <<>> /\ Top.ph = "call"
       \/ /\ pc = "memberOf" /\ stack # <<>> /\ Top.ph = "memberOf"
          /\ Top.i > Len(memberOf[Top.dn])
          /\ PidTruthy(primaryGroupID[Top.dn])
       \/ /\ pc = "memberOf" /\ stack = <<>>
          /\ ti > Len(memberOf[Account])
          /\ PidNotEmptyList(primaryGroupID[Account])
    /\ pc' = "raised"
    /\ stack' = <<>>
    /\ UNCHANGED <<dirVars, ti, already_printed, output, queries>>

Next ==
    \/ get_memberships_query /\ UNCHANGED <<delegVars, trustVars, enumVars, allVars, verbose, displayed>>
    \/ get_memberships_memberOf /\ UNCHANGED <<delegVars, trustVars, enumVars, allVars, verbose, displayed>>
    \/ get_memberships_primaryGroup /\ UNCHANGED <<delegVars, trustVars, enumVars, allVars, verbose, displayed>>
    \/ lookup_groups_query /\ UNCHANGED <<delegVars, trustVars, enumVars, allVars, verbose, displayed>>
    \/ lookup_groups_memberOf /\ UNCHANGED <<delegVars, trustVars, enumVars, allVars, verbose, displayed>>
    \/ lookup_groups_primaryGroup /\ UNCHANGED <<delegVars, trustVars, enumVars, allVars, verbose, displayed>>
    \/ QueryFailure /\ UNCHANGED <<delegVars, trustVars, enumVars, allVars, verbose, displayed>>

Spec == Init /\ [][Next]_vars

\* the interpreter runs the call to its end: it never stops between two steps
FairSpec == Spec /\ WF_vars(Next)

(***************************************************************************)
(* Ldeep.list_delegations: the accounts configured for delegation, one     *)
(* printed line (edge) per unconstrained flag, per constrained target and  *)
(* per ACE of the decoded msDS-AllowedToActOnBehalfOfOtherIdentity.        *)
(***************************************************************************)
\* ------------------------------------------------------------------ bounds
MaxEntries == 2     \* records the delegation query returns
MaxTargets == 2     \* values of one msDS-AllowedToDelegateTo
MaxAces == 3        \* ACEs of one decoded DACL
MaxWeight == 4      \* attributes, flags, targets and ACEs over all the records

\* @filter:string = ["all", "unconstrained", "constrained", "rbcd"]
Filters == {"all", "unconstrained", "constrained", "rbcd"}

\* what kwargs["filter"] can hold: the four filters and any other string
FilterInputs == Filters \cup {"other"}

\* one ACE of a decoded DACL, by what ace.get('SID') and resolve_sid do with it:
\*   nosid     the ACE carries no SID
\*   resolved  resolve_sid returns [object with sAMAccountName]
\*   raises    resolve_sid raises (the SID names no object)
\*   self      resolve_sid returns the SID string itself
\*   empty     resolve_sid returns an empty result
\*   nosam     resolve_sid returns [object without sAMAccountName]
\*   qfail     the lookup inside resolve_sid raises a QueryFailure
AceKinds == {"nosid", "resolved", "raises", "self", "empty", "nosam", "qfail"}

SeqsUpTo(S, n) == UNION {[1..k -> S] : k \in 0..n}

\* msDS-AllowedToActOnBehalfOfOtherIdentity of a record: absent (or empty),
\* bytes parse_ntSecurityDescriptor cannot decode, a descriptor without DACL,
\* or a descriptor with a DACL
ActValues ==
    {[kind |-> k, aces |-> <<>>] : k \in {"absent", "undecodable", "nodacl"}}
    \cup {[kind |-> "dacl", aces |-> a] : a \in SeqsUpTo(AceKinds, MaxAces)}

\* a record of the query result; the sAMAccountName of the k-th record is k
EntryValues ==
    {[hasUac |-> hu, tfd |-> f[1], t2a |-> f[2], hasSam |-> hs,
      delegate |-> d, act |-> a] :
        hu \in BOOLEAN, f \in BOOLEAN \X BOOLEAN, hs \in BOOLEAN,
        d \in SeqsUpTo(1..MaxTargets, MaxTargets), a \in ActValues}

Bit(b) == IF b THEN 1 ELSE 0

Weight(e) ==
    Bit(~e.hasUac) + Bit(~e.hasSam) + Bit(e.tfd) + Bit(e.t2a) + Len(e.delegate)
    + (IF e.act.kind = "absent" THEN 0 ELSE 1 + Len(e.act.aces))

\* the records that fit the bound; a record without userAccountControl has no flag
SmallEntries ==
    {e \in EntryValues :
        /\ Weight(e) <= MaxWeight
        /\ ~e.hasUac => (~e.tfd /\ ~e.t2a)}

\* the records of weight at most w
EntriesUpTo == [w \in 0..MaxWeight |-> {x \in SmallEntries : Weight(x) <= w}]

\* the sequences of n records of total weight at most w
RECURSIVE EntrySeqs(_, _)
EntrySeqs(n, w) ==
    IF n = 0 THEN {<<>>}
    ELSE UNION {{<<e>> \o t : t \in EntrySeqs(n - 1, w - Weight(e))} :
                    e \in EntriesUpTo[w]}

\* the query results of the model
QueryResults == UNION {EntrySeqs(n, MaxWeight) : n \in 0..MaxEntries}

\* the state before list_delegations(kwargs) starts
InitDelegations ==
    /\ memberOf = [dn \in DNs |-> <<>>]
    /\ primaryGroupID = [dn \in DNs |-> UnsetPid]
    /\ accountExists = TRUE /\ recursive = FALSE
    /\ pc = "idle" /\ ti = 1 /\ stack = <<>>
    /\ already_printed = {} /\ output = <<>> /\ queries = <<>>
    /\ entries \in QueryResults
    /\ filter_ \in FilterInputs
    /\ verbose \in BOOLEAN
    /\ ldpc = "start" /\ ei = 1 /\ ai = 1
    /\ edges = <<>> /\ calls = <<>> /\ displayed = <<>>
    /\ results = <<>> /\ lazy = FALSE /\ ltpc = "idle" /\ ri = 1
    /\ trusts = <<>> /\ printed = <<>>
    /\ MiscIdle

\* ---------------------------------------------------------------- helpers
\* a printed line f"{first}:{kind}:{last}"; raw: first is a raw SID string,
\* not a sAMAccountName
Edge(first, kind, last, raw) ==
    [first |-> first, kind |-> kind, last |-> last, raw |-> raw]

\* a call to a collaborator and the exception it ended with ("none": it returned)
Call(fn, arg, exc) == [fn |-> fn, arg |-> arg, exc |-> exc]

\* attributes = ALL if verbose else ["sAMAccountName", "userAccountControl"],
\* extended according to the filter when not verbose
Attributes(f, v) ==
    IF v THEN {"*"}
    ELSE {"sAMAccountName", "userAccountControl"}
         \cup (IF f \in {"all", "constrained"}
               THEN {"msDS-AllowedToDelegateTo"} ELSE {})
         \cup (IF f \in {"all", "rbcd"}
               THEN {"msDS-AllowedToActOnBehalfOfOtherIdentity"} ELSE {})

\* (filter_ == "unconstrained" or filter_ == "all")
WantsUnconstrained(f) == f = "unconstrained" \/ f = "all"

\* (filter_ == "constrained" or filter_ == "all")
WantsConstrained(f) == f = "constrained" \/ f = "all"

\* (filter_ == "rbcd" or filter_ == "all")
WantsRbcdAlways(f) == TRUE
WantsRbcd(f) == f = "rbcd" \/ f = "all"

\* transition = "with" if "TRUSTED_TO_AUTH_FOR_DELEGATION" in uac else "without"
TransitionWithout(e) == "constrained without protocol transition"
Transition(e) ==
    IF e.t2a THEN "constrained with protocol transition"
    ELSE "constrained without protocol transition"

\* if ... and "TRUSTED_FOR_DELEGATION" in uac: print(f"{sam}:unconstrained:")
UnconstrainedLines(f, e, sam) ==
    IF WantsUnconstrained(f) /\ e.tfd
    THEN <<Edge(sam, "unconstrained", 0, FALSE)>> ELSE <<>>

\* if ... and delegate: for a in delegate: print(f"{sam}:constrained ...:{a}")
ConstrainedLines(f, e, sam) ==
    IF WantsConstrained(f) /\ e.delegate # <<>>
    THEN [k \in 1..Len(e.delegate) |-> Edge(sam, Transition(e), e.delegate[k], FALSE)]
    ELSE <<>>

\* the exception self.engine.resolve_sid(sid) ends with
ResolveException(kind) ==
    CASE kind = "raises" -> "NotFound"
      [] kind = "qfail" -> "QueryFailure"
      [] OTHER -> "none"

\* res = self.engine.resolve_sid(sid); name = res[0]['sAMAccountName']:
\* TRUE when the two statements end without an exception (a string, an empty
\* result and an object without the key make res[0]['sAMAccountName'] raise)
NameFoundUnlessRaised(kind) == kind \notin {"raises", "qfail"}
NameFound(kind) == kind = "resolved"

\* parse_ntSecurityDescriptor(allowed_to_act); sd['DACL']['ACEs']: the
\* exception the two ends with
DecodeException(act) ==
    CASE act.kind = "undecodable" -> "DecodeError"
      [] act.kind = "nodacl" -> "TypeError"
      [] OTHER -> "none"

\* if not sid: continue   (the index of the next ACE; n ACEs in the DACL)
AfterNoSidBreak(i, n) == n + 1
AfterNoSid(i, n) == i + 1

\* except Exception: continue   (the index of the next entry; n entries)
SkipEntryBreak(i, n) == n + 1
SkipEntry(i, n) == i + 1

\* except Exception: continue   (where list_delegations goes on)
AfterEntryExceptionRaise == "raised"
AfterEntryException == "loop"

\* ------------------------------------------------------ list_delegations
\* the filter dispatch, the query, and self.display(entries, verbose)
list_delegations_query ==
    /\ ldpc = "start"
    /\ IF filter_ \notin Filters
       THEN /\ ldpc' = "done"
            /\ UNCHANGED <<calls, displayed>>
       ELSE /\ calls' = Append(calls, Call("query", Attributes(filter_, verbose), "none"))
            /\ IF verbose
               THEN ldpc' = "done" /\ displayed' = entries
               ELSE ldpc' = "loop" /\ UNCHANGED displayed
    /\ UNCHANGED <<filter_, verbose, entries, ei, ai, edges>>

\* self.engine.query raises: it is called outside every try block
list_delegations_query_fails ==
    /\ ldpc = "start"
    /\ filter_ \in Filters
    /\ calls' = Append(calls, Call("query", Attributes(filter_, verbose), "QueryFailure"))
    /\ ldpc' = "raised"
    /\ UNCHANGED <<filter_, verbose, entries, ei, ai, edges, displayed>>

\* for entry in entries: try: uac = ...; sam = ...; the unconstrained and the
\* constrained lines; sd = parse_ntSecurityDescriptor(allowed_to_act);
\* sd['DACL']['ACEs'].  except Exception: continue
list_delegations_entry ==
    /\ ldpc = "loop"
    /\ ei <= Len(entries)
    /\ LET e == entries[ei] IN
          IF ~e.hasUac \/ ~e.hasSam
          THEN /\ ei' = SkipEntry(ei, Len(entries))
               /\ ldpc' = AfterEntryException
               /\ UNCHANGED <<edges, calls>>
          ELSE /\ edges' = edges \o UnconstrainedLines(filter_, e, ei)
                                 \o ConstrainedLines(filter_, e, ei)
               /\ IF WantsRbcd(filter_) /\ e.act.kind # "absent"
                  THEN /\ calls' = Append(calls,
                             Call("parse_ntSecurityDescriptor", ei, DecodeException(e.act)))
                       /\ IF DecodeException(e.act) = "none"
                          THEN ldpc' = "aces" /\ ei' = ei
                          ELSE /\ ldpc' = AfterEntryException
                               /\ ei' = SkipEntry(ei, Len(entries))
                  ELSE /\ ei' = ei + 1
                       /\ UNCHANGED <<ldpc, calls>>
    /\ ai' = 1
    /\ UNCHANGED <<filter_, verbose, entries, displayed>>

\* for ace in sd['DACL']['ACEs']: try: sid = ace.get('SID'); if not sid:
\* continue; res = resolve_sid(sid); name = res[0]['sAMAccountName'];
\* print(f"{name}:rbcd:{sam}")  except Exception: print(f"{sid}:rbcd:{sam}")
list_delegations_ace ==
    /\ ldpc = "aces"
    /\ ai <= Len(entries[ei].act.aces)
    /\ LET kind == entries[ei].act.aces[ai] IN
          IF kind = "nosid"
          THEN /\ ai' = AfterNoSid(ai, Len(entries[ei].act.aces))
               /\ UNCHANGED <<edges, calls>>
          ELSE /\ calls' = Append(calls,
                      Call("resolve_sid", <<ei, ai>>, ResolveException(kind)))
               /\ edges' = Append(edges, Edge(ai, "rbcd", ei, ~NameFound(kind)))
               /\ ai' = ai + 1
    /\ UNCHANGED <<filter_, verbose, entries, ldpc, ei, displayed>>

\* the ACE loop ends: the next entry
list_delegations_aces_end ==
    /\ ldpc = "aces"
    /\ ai > Len(entries[ei].act.aces)
    /\ ldpc' = "loop"
    /\ ei' = ei + 1
    /\ UNCHANGED <<filter_, verbose, entries, ai, edges, calls, displayed>>

\* the entry loop ends: list_delegations returns
list_delegations_return ==
    /\ ldpc = "loop"
    /\ ei > Len(entries)
    /\ ldpc' = "done"
    /\ UNCHANGED <<filter_, verbose, entries, ei, ai, edges, calls, displayed>>

NextDelegations ==
    \/ list_delegations_query /\ UNCHANGED <<memberVars, trustVars, enumVars, allVars>>
    \/ list_delegations_query_fails /\ UNCHANGED <<memberVars, trustVars, enumVars, allVars>>
    \/ list_delegations_entry /\ UNCHANGED <<memberVars, trustVars, enumVars, allVars>>
    \/ list_delegations_ace /\ UNCHANGED <<memberVars, trustVars, enumVars, allVars>>
    \/ list_delegations_aces_end /\ UNCHANGED <<memberVars, trustVars, enumVars, allVars>>
    \/ list_delegations_return /\ UNCHANGED <<memberVars, trustVars, enumVars, allVars>>

DelegSpec == InitDelegations /\ [][NextDelegations]_vars

\* ------------------------------------------------------------ list_trusts
MaxTrusts == 2

\* ATTRIBUTE_TRANSLATION
ATTRIBUTE_TRANSLATION ==
    [trustDirection |-> (3 :> "bidirectional" @@ 2 :> "outbound"
                         @@ 1 :> "inbound" @@ 0 :> "disabled"),
     trustType |-> (1 :> "Non running Windows domain"
                    @@ 2 :> "Windows domain running Active Directory"
                    @@ 3 :> "Non Windows domain")]

\* the values a record may carry: those of the table and one outside it
TrustValues == [trustDirection |-> 0..4, trustType |-> 0..3]

\* a record: the attributes it has, each with its value
TrustRecords ==
    UNION {{r \in [keys -> 0..4] : \A key \in keys : r[key] \in TrustValues[key]} :
              keys \in SUBSET DOMAIN ATTRIBUTE_TRANSLATION}

\* ATTRIBUTE_TRANSLATION[key][int(result[key])] raises KeyError
Untranslatable(result) ==
    \E key \in DOMAIN result : result[key] \notin DOMAIN ATTRIBUTE_TRANSLATION[key]

\* for key in ATTRIBUTE_TRANSLATION: if key in result:
\*     result[key] = ATTRIBUTE_TRANSLATION[key][int(result[key])]
Translated(result) ==
    [key \in DOMAIN result |-> ATTRIBUTE_TRANSLATION[key][result[key]]]

\* what iterating results gives once the for loop has been through it: the
\* records of a list, changed in place; nothing more from a generator
SecondPass(isLazy, translated) == IF isLazy THEN <<>> ELSE translated

InitTrusts ==
    /\ memberOf = [dn \in DNs |-> <<>>]
    /\ primaryGroupID = [dn \in DNs |-> UnsetPid]
    /\ accountExists = TRUE /\ recursive = FALSE
    /\ pc = "idle" /\ ti = 1 /\ stack = <<>>
    /\ already_printed = {} /\ output = <<>> /\ queries = <<>>
    /\ filter_ = "all" /\ entries = <<>>
    /\ ldpc = "idle" /\ ei = 1 /\ ai = 1
    /\ edges = <<>> /\ calls = <<>> /\ displayed = <<>>
    /\ verbose \in BOOLEAN
    /\ results \in SeqsUpTo(TrustRecords, MaxTrusts)
    /\ lazy \in BOOLEAN
    /\ ltpc = "start" /\ ri = 1
    /\ trusts = <<>> /\ printed = <<>>
    /\ MiscIdle

\* results = self.engine.query(self.engine.TRUSTS_INFO_FILTER()); trusts = []
list_trusts_query ==
    /\ ltpc = "start"
    /\ ltpc' = "loop"
    /\ UNCHANGED <<verbose, displayed, results, lazy, ri, trusts, printed>>

\* for result in results: ...; trusts.append(result)
list_trusts_translate ==
    /\ ltpc = "loop"
    /\ ri <= Len(results)
    /\ IF Untranslatable(results[ri])
       THEN ltpc' = "raised" /\ UNCHANGED <<ri, trusts>>
       ELSE /\ trusts' = Append(trusts, Translated(results[ri]))
            /\ ri' = ri + 1
            /\ UNCHANGED ltpc
    /\ UNCHANGED <<verbose, displayed, results, lazy, printed>>

\* if verbose: self.display(results, verbose); return
list_trusts_display ==
    /\ ltpc = "loop"
    /\ ri > Len(results)
    /\ verbose
    /\ displayed' = SecondPass(lazy, trusts)
    /\ ltpc' = "done"
    /\ UNCHANGED <<verbose, results, lazy, ri, trusts, printed>>

\* the for loop is over, not verbose: on to the loop over trusts
list_trusts_fields ==
    /\ ltpc = "loop"
    /\ ri > Len(results)
    /\ ~verbose
    /\ ltpc' = "print"
    /\ ri' = 1
    /\ UNCHANGED <<verbose, displayed, results, lazy, trusts, printed>>

\* for result in trusts: for field in FIELDS_TO_PRINT: ... print("")
list_trusts_print ==
    /\ ltpc = "print"
    /\ ri <= Len(trusts)
    /\ printed' = Append(printed, trusts[ri])
    /\ ri' = ri + 1
    /\ UNCHANGED <<verbose, displayed, results, lazy, ltpc, trusts>>

list_trusts_return ==
    /\ ltpc = "print"
    /\ ri > Len(trusts)
    /\ ltpc' = "done"
    /\ UNCHANGED <<verbose, displayed, results, lazy, ri, trusts, printed>>

NextTrusts ==
    \/ list_trusts_query /\ UNCHANGED <<memberVars, delegVars, enumVars, allVars>>
    \/ list_trusts_translate /\ UNCHANGED <<memberVars, delegVars, enumVars, allVars>>
    \/ list_trusts_display /\ UNCHANGED <<memberVars, delegVars, enumVars, allVars>>
    \/ list_trusts_fields /\ UNCHANGED <<memberVars, delegVars, enumVars, allVars>>
    \/ list_trusts_print /\ UNCHANGED <<memberVars, delegVars, enumVars, allVars>>
    \/ list_trusts_return /\ UNCHANGED <<memberVars, delegVars, enumVars, allVars>>

TrustSpec == InitTrusts /\ [][NextTrusts]_vars

\* -------------------------------------------------------- misc_enum_users
MaxFile == 5

\* the characters of a file: two letters and the end of a line
Chars == {"a", "b", "\n"}
Files == SeqsUpTo(Chars, MaxFile)

\* the names the directory may know
Candidates == {<<"a">>, <<"b">>, <<"a", "b">>}

\* f.readline(): the characters after off up to and with the next "\n", or
\* up to the end of the file; empty at the end of the file
readline(f, off) ==
    LET rest == SubSeq(f, off + 1, Len(f))
        ends == {k \in 1..Len(rest) : rest[k] = "\n"}
    IN  IF ends = {} THEN rest
        ELSE SubSeq(rest, 1, CHOOSE k \in ends : \A j \in ends : k <= j)

\* [:-1]
DropLast(s) == SubSeq(s, 1, Len(s) - 1)

InitEnumUsers ==
    /\ memberOf = [dn \in DNs |-> <<>>]
    /\ primaryGroupID = [dn \in DNs |-> UnsetPid]
    /\ accountExists = TRUE /\ recursive = FALSE
    /\ pc = "idle" /\ ti = 1 /\ stack = <<>>
    /\ already_printed = {} /\ output = <<>> /\ queries = <<>>
    /\ filter_ = "all" /\ verbose = FALSE /\ entries = <<>>
    /\ ldpc = "idle" /\ ei = 1 /\ ai = 1
    /\ edges = <<>> /\ calls = <<>> /\ displayed = <<>>
    /\ results = <<>> /\ lazy = FALSE /\ ltpc = "idle" /\ ri = 1
    /\ trusts = <<>> /\ printed = <<>>
    /\ commands = <<>> /\ mapc = "idle" /\ ci = 1 /\ fi = 1
    /\ kwverbose = FALSE /\ stdout = <<>> /\ invoked = <<>>
    /\ file \in Files
    /\ existing \in SUBSET Candidates
    /\ eupc = "start" /\ offset = 0
    /\ tried = <<>> /\ found = <<>>

\* with open(file, 'r') as f:   (the bind is anonymous)
misc_enum_users_open ==
    /\ eupc = "start"
    /\ eupc' = "loop"
    /\ UNCHANGED <<file, existing, offset, tried, found>>

\* line = f.readline()[:-1]; if self.engine.user_exists(line): print(line)
misc_enum_users_try ==
    /\ eupc = "loop"
    /\ LET line == DropLast(readline(file, offset)) IN
          /\ line # <<>>
          /\ tried' = Append(tried, line)
          /\ found' = IF line \in existing THEN Append(found, line) ELSE found
    /\ offset' = offset + Len(readline(file, offset))
    /\ UNCHANGED <<file, existing, eupc>>

\* line = f.readline()[:-1]; if not line: break
misc_enum_users_break ==
    /\ eupc = "loop"
    /\ DropLast(readline(file, offset)) = <<>>
    /\ offset' = offset + Len(readline(file, offset))
    /\ eupc' = "done"
    /\ UNCHANGED <<file, existing, tried, found>>

NextEnumUsers ==
    \/ misc_enum_users_open /\ UNCHANGED <<memberVars, delegVars, trustVars, allVars, verbose, displayed>>
    \/ misc_enum_users_try /\ UNCHANGED <<memberVars, delegVars, trustVars, allVars, verbose, displayed>>
    \/ misc_enum_users_break /\ UNCHANGED <<memberVars, delegVars, trustVars, allVars, verbose, displayed>>

EnumUsersSpec == InitEnumUsers /\ [][NextEnumUsers]_vars

\* --------------------------------------------------------------- misc_all
MaxCommands == 3
MaxFilters == 2

\* a list_ command: has_option(method, "filter"), the number of values
\* retrieve_default_val_for_arg(method, "filter") gives, has_option(method, "verbose")
Commands ==
    {[hasFilter |-> FALSE, filters |-> 0, hasVerbose |-> v] : v \in BOOLEAN}
    \cup {[hasFilter |-> TRUE, filters |-> n, hasVerbose |-> v] :
             n \in 1..MaxFilters, v \in BOOLEAN}

\* no filter value: the command has no filter option
NoFilter == 0

\* the file sys.stdout is set to
Logger(command, f, ext) == <<command, f, ext>>

\* getattr(self, method)(kwargs), with the value of kwargs["verbose"] and the
\* file sys.stdout writes to at the call
Invocation(command, f, v, out) == [command |-> command, filter |-> f, verbose |-> v, stdout |-> out]

\* the filter value of the loop
FilterNow == IF commands[ci].hasFilter THEN fi ELSE NoFilter

\* the filter values of the command are through
LastFilter == ~commands[ci].hasFilter \/ fi >= commands[ci].filters

\* kwargs["verbose"] = False, after the verbose invocation
VerboseLeft == TRUE
VerboseReset == FALSE

InitAll ==
    /\ memberOf = [dn \in DNs |-> <<>>]
    /\ primaryGroupID = [dn \in DNs |-> UnsetPid]
    /\ accountExists = TRUE /\ recursive = FALSE
    /\ pc = "idle" /\ ti = 1 /\ stack = <<>>
    /\ already_printed = {} /\ output = <<>> /\ queries = <<>>
    /\ filter_ = "all" /\ verbose = FALSE /\ entries = <<>>
    /\ ldpc = "idle" /\ ei = 1 /\ ai = 1
    /\ edges = <<>> /\ calls = <<>> /\ displayed = <<>>
    /\ results = <<>> /\ lazy = FALSE /\ ltpc = "idle" /\ ri = 1
    /\ trusts = <<>> /\ printed = <<>>
    /\ file = <<>> /\ existing = {} /\ eupc = "idle" /\ offset = 0
    /\ tried = <<>> /\ found = <<>>
    /\ commands \in SeqsUpTo(Commands, MaxCommands)
    /\ kwverbose \in BOOLEAN
    /\ mapc = "start" /\ ci = 1 /\ fi = 1
    /\ stdout = <<>> /\ invoked = <<>>

\* output = kwargs["output"]; kwargs["verbose"] = False
misc_all_start ==
    /\ mapc = "start"
    /\ kwverbose' = FALSE
    /\ mapc' = "plain"
    /\ UNCHANGED <<commands, ci, fi, stdout, invoked>>

\* sys.stdout = Logger("..lst"); kwargs["filter"] = f; getattr(self, method)(kwargs)
misc_all_plain ==
    /\ mapc = "plain"
    /\ ci <= Len(commands)
    /\ stdout' = Logger(ci, FilterNow, "lst")
    /\ invoked' = Append(invoked, Invocation(ci, FilterNow, kwverbose, stdout'))
    /\ IF commands[ci].hasVerbose
       THEN mapc' = "verbose" /\ UNCHANGED <<ci, fi>>
       ELSE /\ UNCHANGED mapc
            /\ ci' = IF LastFilter THEN ci + 1 ELSE ci
            /\ fi' = IF LastFilter THEN 1 ELSE fi + 1
    /\ UNCHANGED <<commands, kwverbose>>

\* if self.has_option(method, "verbose"): sys.stdout = Logger("..json");
\* kwargs["verbose"] = True; getattr(self, method)(kwargs)
misc_all_verbose ==
    /\ mapc = "verbose"
    /\ stdout' = Logger(ci, FilterNow, "json")
    /\ kwverbose' = TRUE
    /\ invoked' = Append(invoked, Invocation(ci, FilterNow, kwverbose', stdout'))
    /\ mapc' = "reset"
    /\ UNCHANGED <<commands, ci, fi>>

\* kwargs["verbose"] = False; the next filter value or the next command
misc_all_reset ==
    /\ mapc = "reset"
    /\ kwverbose' = VerboseReset
    /\ ci' = IF LastFilter THEN ci + 1 ELSE ci
    /\ fi' = IF LastFilter THEN 1 ELSE fi + 1
    /\ mapc' = "plain"
    /\ UNCHANGED <<commands, stdout, invoked>>

\* getattr(self, method)(kwargs) raises: misc_all has no handler
misc_all_raises ==
    /\ mapc \in {"plain", "verbose"}
    /\ ci <= Len(commands)
    /\ LET ext == IF mapc = "plain" THEN "lst" ELSE "json"
           v == IF mapc = "plain" THEN kwverbose ELSE TRUE
       IN  /\ stdout' = Logger(ci, FilterNow, ext)
           /\ kwverbose' = v
           /\ invoked' = Append(invoked, Invocation(ci, FilterNow, v, stdout'))
    /\ mapc' = "raised"
    /\ UNCHANGED <<commands, ci, fi>>

\* for command, method in self.get_commands(prefix="list_"): the loop ends
misc_all_return ==
    /\ mapc = "plain"
    /\ ci > Len(commands)
    /\ mapc' = "done"
    /\ UNCHANGED <<commands, ci, fi, kwverbose, stdout, invoked>>

NextAll ==
    \/ misc_all_start /\ UNCHANGED <<memberVars, delegVars, trustVars, enumVars, verbose, displayed>>
    \/ misc_all_plain /\ UNCHANGED <<memberVars, delegVars, trustVars, enumVars, verbose, displayed>>
    \/ misc_all_verbose /\ UNCHANGED <<memberVars, delegVars, trustVars, enumVars, verbose, displayed>>
    \/ misc_all_reset /\ UNCHANGED <<memberVars, delegVars, trustVars, enumVars, verbose, displayed>>
    \/ misc_all_raises /\ UNCHANGED <<memberVars, delegVars, trustVars, enumVars, verbose, displayed>>
    \/ misc_all_return /\ UNCHANGED <<memberVars, delegVars, trustVars, enumVars, verbose, displayed>>

AllSpec == InitAll /\ [][NextAll]_vars

\* ------------------------------------------------------------------ claims
Done == pc = "done"
Ended == pc \in {"done", "raised"}

DnQueries(dn) ==
    {k \in 1..Len(queries) :
        queries[k].filter = "DISTINGUISHED_NAME" /\ queries[k].arg = dn}

\* dn lies on a memberOf loop of length 1, 2 or 3
OnLoop(dn) ==
    \E a, b \in DNs :
        \/ \E k \in 1..Len(memberOf[dn]) : memberOf[dn][k] = dn
        \/ /\ \E k \in 1..Len(memberOf[dn]) : memberOf[dn][k] = a
           /\ \E k \in 1..Len(memberOf[a]) : memberOf[a][k] = dn
        \/ /\ \E k \in 1..Len(memberOf[dn]) : memberOf[dn][k] = a
           /\ \E k \in 1..Len(memberOf[a]) : memberOf[a][k] = b
           /\ \E k \in 1..Len(memberOf[b]) : memberOf[b][k] = dn

\* C1: whatever the directory (memberOf loops and self-loops included, any
\* primaryGroupID), a recursive get_memberships terminates: it reaches a state
\* with no call of lookup_groups pending and nothing left to do.
C1_Terminates == recursive => <>(Ended /\ stack = <<>>)

\* C1 witness: a recursive call has returned after expanding a group that
\* lies on a memberOf loop.
C1_Witness ==
    /\ Done /\ recursive /\ stack = <<>>
    /\ \E dn \in DNs : DnQueries(dn) # {} /\ OnLoop(dn)

\* ------------------------------------------------------- derived notions
Last(seq) == seq[Len(seq)]

\* the memberOf values of an entry, as a set
Members(dn) == {memberOf[dn][k] : k \in 1..Len(memberOf[dn])}

RECURSIVE Closure(_, _)
Closure(S, n) ==
    IF n = 0 THEN S ELSE Closure(S \cup UNION {Members(dn) : dn \in S}, n - 1)

\* the entries reachable from the account through one or more memberOf edges
Reachable == Closure(Members(Account), NumDN)

\* the queries that returned the record (memberOf, primaryGroupID) of dn
EntryQueries(dn) ==
    DnQueries(dn) \cup
    {k \in 1..Len(queries) :
        /\ queries[k].filter = "ACCOUNT_IN_GROUPS_FILTER"
        /\ dn = Account /\ accountExists}

\* the printed lines that name dn
Lines(dn) == {k \in 1..Len(output) : output[k].dn = dn}

\* the depth a line is printed at
Depth(k) == output[k].pad \div IndentStep

\* the primary group of the account, when primaryGroupID is set and resolves
AccountPrimary ==
    IF PidNotEmptyList(primaryGroupID[Account])
    THEN PRIMARY_GROUP_ID(primaryGroupID[Account]) ELSE <<>>

\* the primary groups resolved inside lookup_groups so far
NestedPrimaries ==
    {queries[k].arg : k \in {j \in 1..Len(queries) :
        /\ queries[j].filter = "PRIMARY_GROUP_ID"
        /\ queries[j].by = "lookup_groups"
        /\ PRIMARY_GROUP_ID(queries[j].arg) # <<>>}}

\* C2: on the loop account -> 2 -> 3 -> account, the recursive call ends
\* having queried each of the three entries for its memberOf/primaryGroupID
\* exactly once.
C2_CycleQueriedOnce ==
    ( /\ Done /\ recursive /\ accountExists
      /\ memberOf[Account] = <<2>> /\ memberOf[2] = <<3>>
      /\ memberOf[3] = <<Account>>
      /\ \A dn \in DNs : primaryGroupID[dn] = UnsetPid )
    => \A dn \in {Account, 2, 3} : Cardinality(EntryQueries(dn)) = 1

\* C3: no group DN is expanded more than once: at most one DISTINGUISHED_NAME
\* query per DN, hence at most as many as there are reachable DNs.
C3_ExpandedAtMostOnce ==
    /\ \A dn \in DNs : Cardinality(DnQueries(dn)) <= 1
    /\ Cardinality(UNION {DnQueries(dn) : dn \in DNs}) <= Cardinality(Reachable)

\* C4: a line printed at the top level has no leading space; a line printed
\* while expanding the group of line p has 4 * (depth of p + 1) leading
\* spaces, which is the leading_sp of the call that expands p.
C4_DepthPlusOne ==
    /\ \A k \in 1..Len(output) :
          LET l == output[k] IN
             /\ l.parent = 0 => l.pad = 0
             /\ l.parent # 0 =>
                   /\ l.parent < k
                   /\ l.pad = IndentStep * (Depth(l.parent) + 1)
    /\ \A n \in 1..Len(stack) :
          stack[n].leading_sp = IndentStep * (Depth(stack[n].line) + 1)

\* C4 witness: the call has returned after printing a group at depth 2 whose
\* parent line is at depth 1.
C4_Witness ==
    /\ Done
    /\ \E k \in 1..Len(output) :
          /\ output[k].parent # 0
          /\ Depth(k) = 2 /\ Depth(output[k].parent) = 1

\* C5: when the primaryGroupID of the account resolves to P, P is resolved
\* with one PRIMARY_GROUP_ID query and reported exactly once, at depth 0
\* (stated for the directories where P is no memberOf value of the account
\* and the account is no group of the closure).
C5_PrimaryReportedOnce ==
    ( /\ Done /\ accountExists /\ AccountPrimary # <<>>
      /\ Account \notin Reachable
      /\ AccountPrimary[1] \notin Members(Account) \cup {Account} ) =>
        LET P == AccountPrimary[1] IN
           /\ Cardinality({k \in 1..Len(queries) :
                 /\ queries[k].filter = "PRIMARY_GROUP_ID"
                 /\ queries[k].arg = primaryGroupID[Account]}) = 1
           /\ Cardinality(Lines(P)) = 1
           /\ \A k \in Lines(P) : output[k].pad = 0

\* C6 as stated: the primary group P of a group expanded by lookup_groups
\* appears exactly once in the output and is never expanded (stated for a P
\* that only the primaryGroupID edge leads to).
C6_NestedPrimaryPrintedOnce ==
    (Done /\ recursive) =>
        \A P \in NestedPrimaries :
            (P \notin Reachable \cup {Account} /\ AccountPrimary # <<P>>) =>
                Cardinality(Lines(P)) = 1 /\ DnQueries(P) = {}

\* C6 amended: the primaryGroupID edge of a group expanded by lookup_groups
\* adds no line and no expansion: a P reached by no memberOf path from the
\* account, and which is not the account's own primary group, is absent from
\* the output and never queried by DN; and every DN queried by DN was printed.
C6_NestedPrimaryNotEmitted ==
    \A P \in NestedPrimaries :
        /\ (P \notin Reachable /\ AccountPrimary # <<P>>) =>
              Lines(P) = {} /\ DnQueries(P) = {}
        /\ DnQueries(P) # {} => Lines(P) # {}

\* C6 witness: the call has returned, a group expanded by lookup_groups had a
\* primary group P outside the memberOf closure, and P was not printed.
C6_Witness ==
    /\ Done /\ recursive
    /\ \E P \in NestedPrimaries :
          P \notin Reachable /\ AccountPrimary # <<P>> /\ Lines(P) = {}

\* C7: a step of lookup_groups that resolves the primaryGroupID of the group
\* it expands to P adds P to the visited set, prints nothing and calls
\* nothing; and no later step prints P from inside lookup_groups.
C7_NestedPrimarySuppressed ==
    [][ /\ ( /\ Len(queries') = Len(queries) + 1
             /\ Last(queries').filter = "PRIMARY_GROUP_ID"
             /\ Last(queries').by = "lookup_groups"
             /\ PRIMARY_GROUP_ID(Last(queries').arg) # <<>> )
           => /\ PRIMARY_GROUP_ID(Last(queries').arg)[1] \in already_printed'
              /\ output' = output
              /\ Len(stack') < Len(stack)
        /\ \A P \in NestedPrimaries :
              (Len(output') > Len(output) /\ Last(output').parent # 0)
                 => Last(output').dn # P
      ]_vars

\* C7 witness: after lookup_groups resolved P as a primary group, a group
\* that has P among its memberOf values was expanded, and P was printed by no
\* call of lookup_groups.
C7_Witness ==
    /\ Done
    /\ \E P \in NestedPrimaries :
          /\ \A k \in Lines(P) : output[k].parent = 0
          /\ \E j, k \in 1..Len(queries) :
                /\ j < k
                /\ queries[j].filter = "PRIMARY_GROUP_ID"
                /\ queries[j].by = "lookup_groups"
                /\ queries[j].arg = P
                /\ queries[k].filter = "DISTINGUISHED_NAME"
                /\ P \in Members(queries[k].arg)

\* the DNs of the lines printed while expanding line p (p = 0: top level)
RECURSIVE ChildrenOf(_, _)
ChildrenOf(p, n) ==
    IF n = 0 THEN <<>>
    ELSE IF output[n].parent = p
         THEN Append(ChildrenOf(p, n - 1), output[n].dn)
         ELSE ChildrenOf(p, n - 1)

\* sub lists the values of seq in the order of seq (seq has no duplicate)
InOrderOf(sub, seq) ==
    /\ \A a \in 1..Len(sub) : \E b \in 1..Len(seq) : seq[b] = sub[a]
    /\ \A a1, a2 \in 1..Len(sub) : \A b1, b2 \in 1..Len(seq) :
          (a1 < a2 /\ seq[b1] = sub[a1] /\ seq[b2] = sub[a2]) => b1 < b2

\* C8: the output is in depth-first discovery order: the top-level lines are
\* the memberOf values of the account in record order (then its primary
\* group), the lines printed beneath a group follow its line without
\* interruption and in the record order of its memberOf values.
C8_DiscoveryOrder ==
    /\ ChildrenOf(0, Len(output)) =
          SubSeq(memberOf[Account], 1, ti - 1) \o (IF Done THEN AccountPrimary ELSE <<>>)
    /\ \A k \in 1..Len(output) :
          LET p == output[k].parent IN
             p # 0 =>
                /\ p < k
                /\ \A j \in (p + 1)..k : output[j].pad > output[p].pad
                /\ InOrderOf(ChildrenOf(p, Len(output)), memberOf[output[p].dn])

\* C8 witness: the call has returned having printed a direct group, a group
\* found beneath it, and then a second direct group with a smaller name.
C8_Witness ==
    /\ Done
    /\ \E k \in 1..Len(output) :
          /\ k + 2 <= Len(output)
          /\ output[k].parent = 0
          /\ output[k + 1].parent = k
          /\ output[k + 2].parent = 0
          /\ output[k + 2].dn < output[k].dn

\* C9: without recursive, lookup_groups is never called and no by-DN query is
\* issued; the call prints the memberOf values of the account in record order
\* and then its resolved primary group, all without indentation.
C9_DirectOnly ==
    ~recursive =>
        /\ stack = <<>>
        /\ \A dn \in DNs : DnQueries(dn) = {}
        /\ \A k \in 1..Len(output) : output[k].pad = 0
        /\ Done =>
              [k \in 1..Len(output) |-> output[k].dn] =
                 memberOf[Account] \o AccountPrimary

\* C9 witness: a non-recursive call has returned for an account with two
\* groups, one of them nested in a further group, and a primary group.
C9_Witness ==
    /\ Done /\ ~recursive
    /\ Len(output) = 3
    /\ AccountPrimary # <<>>
    /\ \E dn \in Members(Account) : Members(dn) # {}

\* C10: when the account query returns no record the call does not complete
\* normally: it ends with an error.
C10_MissingAccountIsError == ~accountExists => ~Done

\* C18: at every call lookup_groups(dn, ...) of a recursive get_memberships
\* dn is in the visited set already, and the visited set only grows.
C18_VisitedBeforeExpand ==
    /\ [](\A n \in 1..Len(stack) : stack[n].dn \in already_printed)
    /\ [][already_printed \subseteq already_printed']_vars

C18_Witness ==
    /\ recursive
    /\ Len(stack) >= 2
    /\ Top.ph = "call"
    /\ Top.dn \in already_printed
    /\ Cardinality(already_printed) >= 3

\* C23: a recursive call that ends has printed every group reachable from
\* the account through one or more memberOf edges at least once, also a
\* group that is the primary group of another group expanded before (stated
\* for the directories where no memberOf path leads back to the account).
C23_ReachableIsPrinted ==
    Done /\ recursive /\ accountExists /\ Account \notin Reachable =>
        \A dn \in Reachable : Lines(dn) # {}

\* C24: a recursive call prints no group DN more than once.
C24_PrintedAtMostOnce ==
    recursive => \A dn \in DNs : Cardinality(Lines(dn)) <= 1

\* ------------------------------------------------- claims, list_delegations
DelegationsDone == ldpc = "done"

\* list_delegations prints edges: a valid filter, not verbose
Printing == filter_ \in Filters /\ ~verbose

\* the record of account k has the two attributes every iteration reads first
Readable(k) == entries[k].hasUac /\ entries[k].hasSam

\* the rbcd block of account k decodes the descriptor
Decodes(k) == Printing /\ WantsRbcd(filter_) /\ Readable(k) /\ entries[k].act.kind # "absent"

\* ... and the decoding gives a DACL with its ACEs
Decoded(k) == Decodes(k) /\ entries[k].act.kind = "dacl"

\* the iteration of account k is over
EntryDone(k) == ldpc \in {"loop", "aces", "done"} /\ k < ei

\* the number of ACEs of account k the ACE loop is through with
AcesDone(k) ==
    IF EntryDone(k) THEN Len(entries[k].act.aces)
    ELSE IF ldpc = "aces" /\ k = ei THEN ai - 1
    ELSE 0

\* the lines of account k, in the order of their printing
IsOf(edge, k) == IF edge.kind = "rbcd" THEN edge.last = k ELSE edge.first = k
EdgesOf(k) == LET Test(edge) == IsOf(edge, k) IN SelectSeq(edges, Test)
RbcdOf(k) == LET Test(edge) == edge.kind = "rbcd" /\ edge.last = k IN SelectSeq(edges, Test)

\* the ACEs of account k whose SID is present and does not resolve to a name:
\* resolve_sid raises, or returns the SID string, an empty result or an
\* object without sAMAccountName
FailKinds == {"raises", "self", "empty", "nosam"}
Unresolved(k) ==
    {j \in 1..AcesDone(k) : Decoded(k) /\ entries[k].act.aces[j] \in FailKinds}

\* C11: with filter rbcd or all, not verbose, every ACE with a SID whose
\* resolution gives no name has exactly one rbcd line, the one with the raw
\* SID before the account; the call goes on.
C11_RawSidFallback ==
    \A k \in 1..Len(entries) : \A j \in Unresolved(k) :
        /\ Cardinality({n \in 1..Len(edges) :
               /\ edges[n].kind = "rbcd"
               /\ edges[n].first = j
               /\ edges[n].last = k}) = 1
        /\ \E n \in 1..Len(edges) : edges[n] = Edge(j, "rbcd", k, TRUE)
        /\ ldpc # "raised"

C11_Witness ==
    /\ DelegationsDone
    /\ \E k \in 1..Len(entries) :
          /\ Cardinality(Unresolved(k)) = 3
          /\ Cardinality({entries[k].act.aces[j] : j \in Unresolved(k)}) = 3

\* the ACEs with a SID among the first m, in the order of the DACL
RECURSIVE SidAces(_, _)
SidAces(aces, m) ==
    IF m = 0 THEN <<>>
    ELSE IF aces[m] = "nosid" THEN SidAces(aces, m - 1)
    ELSE Append(SidAces(aces, m - 1), m)

\* C12: an account whose descriptor decodes has one rbcd line for each ACE
\* with a SID, in the order of the ACEs; an ACE without SID has no line and
\* does not end the loop.
C12_OneEdgePerAce ==
    \A k \in 1..Len(entries) :
        Decoded(k) =>
            LET sids == SidAces(entries[k].act.aces, AcesDone(k)) IN
            /\ Len(RbcdOf(k)) = Len(sids)
            /\ \A n \in 1..Len(sids) : RbcdOf(k)[n].first = sids[n]

C12_Witness ==
    /\ DelegationsDone
    /\ \E k \in 1..Len(entries) :
          /\ Decoded(k)
          /\ Len(entries[k].act.aces) = 3
          /\ entries[k].act.aces[1] # "nosid"
          /\ entries[k].act.aces[2] = "nosid"
          /\ entries[k].act.aces[3] # "nosid"
          /\ Len(RbcdOf(k)) = 2

\* the lines of a record that depend on nothing but the record and the filter
RbcdLines(e, k) ==
    LET sids == SidAces(e.act.aces, Len(e.act.aces)) IN
    [n \in 1..Len(sids) |->
        Edge(sids[n], "rbcd", k, e.act.aces[sids[n]] # "resolved")]
AccountLines(f, e, k) ==
    IF ~e.hasUac \/ ~e.hasSam THEN <<>>
    ELSE UnconstrainedLines(f, e, k) \o ConstrainedLines(f, e, k)
         \o (IF WantsRbcd(f) /\ e.act.kind = "dacl" THEN RbcdLines(e, k) ELSE <<>>)

\* the iteration of account k ends in an exception: an attribute is missing,
\* the descriptor does not decode or has no DACL
Fails(k) ==
    \/ ~Readable(k)
    \/ Decodes(k) /\ DecodeException(entries[k].act) # "none"

\* C13: a failure while processing an account does not end the call and
\* leaves the lines of the other accounts as they are without it: every
\* account is processed, and its lines are those of its own record.
C13_AccountIsolation ==
    /\ ldpc = "raised" => edges = <<>> /\ ei = 1
    /\ Printing /\ DelegationsDone =>
          /\ ei = Len(entries) + 1
          /\ \A k \in 1..Len(entries) : EdgesOf(k) = AccountLines(filter_, entries[k], k)

C13_Witness ==
    /\ Printing /\ DelegationsDone
    /\ Len(entries) = 2
    /\ Fails(1)
    /\ EdgesOf(2) # <<>>

\* C14: an account whose descriptor does not decode, or decodes without a
\* DACL, has no rbcd line, no error leaves the call, and the unconstrained
\* and constrained lines of the account are there.
C14_DecodeFailureContained ==
    /\ ldpc = "raised" => \A n \in 1..Len(calls) : calls[n].fn = "query"
    /\ \A k \in 1..Len(entries) :
          Decodes(k) /\ DecodeException(entries[k].act) # "none" /\ EntryDone(k) =>
              /\ RbcdOf(k) = <<>>
              /\ EdgesOf(k) = UnconstrainedLines(filter_, entries[k], k)
                              \o ConstrainedLines(filter_, entries[k], k)

C14_Witness ==
    /\ DelegationsDone
    /\ \E k \in 1..Len(entries) :
          /\ Decodes(k) /\ DecodeException(entries[k].act) # "none"
          /\ filter_ = "all"
          /\ entries[k].tfd
          /\ entries[k].delegate # <<>>
          /\ Len(EdgesOf(k)) = 1 + Len(entries[k].delegate)

ConstrainedKinds ==
    {"constrained with protocol transition", "constrained without protocol transition"}
UnconstrainedOf(k) ==
    LET Test(edge) == edge.kind = "unconstrained" /\ edge.first = k IN SelectSeq(edges, Test)
ConstrainedOf(k) ==
    LET Test(edge) == edge.kind \in ConstrainedKinds /\ edge.first = k IN SelectSeq(edges, Test)

\* the place of a kind of line within the lines of one account
Rank(kind) ==
    CASE kind = "unconstrained" -> 1
      [] kind \in ConstrainedKinds -> 2
      [] OTHER -> 3

\* the unconstrained and constrained lines of record k are what the claim
\* says, and the lines of the account come unconstrained, constrained, rbcd
DelegationLinesOf(k) ==
    /\ Len(UnconstrainedOf(k)) = Bit(entries[k].tfd)
    /\ Len(ConstrainedOf(k)) = Len(entries[k].delegate)
    /\ \A n \in 1..Len(ConstrainedOf(k)) :
          /\ ConstrainedOf(k)[n].last = entries[k].delegate[n]
          /\ ConstrainedOf(k)[n].kind =
                IF entries[k].t2a THEN "constrained with protocol transition"
                ELSE "constrained without protocol transition"
    /\ \A m, n \in 1..Len(EdgesOf(k)) :
          m < n => Rank(EdgesOf(k)[m].kind) <= Rank(EdgesOf(k)[n].kind)

\* the iteration of account k is past its unconstrained and constrained part
PastConstrained(k) == EntryDone(k) \/ (ldpc = "aces" /\ k = ei)

\* C15 as stated: with filter all, not verbose, every record has one
\* unconstrained line iff it is trusted for delegation, one constrained line
\* for each delegation target in the order of the list, with or without
\* protocol transition by the flag, and its lines in the order unconstrained,
\* constrained, rbcd.
C15_EveryRecordHasItsLines ==
    Printing /\ filter_ = "all" =>
        \A k \in 1..Len(entries) : PastConstrained(k) => DelegationLinesOf(k)

\* C15 amended: the same for every record that carries userAccountControl
\* and sAMAccountName.
C15_ReadableRecordHasItsLines ==
    Printing /\ filter_ = "all" =>
        \A k \in 1..Len(entries) :
            PastConstrained(k) /\ Readable(k) => DelegationLinesOf(k)

C15_Witness ==
    /\ Printing /\ filter_ = "all" /\ DelegationsDone
    /\ \E k \in 1..Len(entries) :
          /\ Readable(k)
          /\ entries[k].tfd
          /\ entries[k].delegate # <<>>
          /\ RbcdOf(k) # <<>>
          /\ Len(EdgesOf(k)) = 3

\* C16: an account whose extraction fails is reported as skipped: the output
\* has a line that says so for the account.
C16_FailureReported ==
    Printing /\ DelegationsDone =>
        \A k \in 1..Len(entries) :
            Fails(k) => \E n \in 1..Len(edges) :
                            edges[n].kind = "skipped" /\ edges[n].first = k

\* C17: a QueryFailure of the query collaborator, raised by the first query
\* or by the lookup of resolve_sid, leaves list_delegations as it was raised.
C17_QueryFailurePropagates ==
    \A n \in 1..Len(calls) : calls[n].exc = "QueryFailure" => ldpc = "raised"

\* C19: not verbose, filter unconstrained, constrained or rbcd prints lines
\* of that kind only; with unconstrained or constrained neither the
\* descriptor parser nor resolve_sid is called; with any other filter than
\* the four there is no query and no output.
C19_FilterGating ==
    /\ filter_ = "unconstrained" => \A n \in 1..Len(edges) : edges[n].kind = "unconstrained"
    /\ filter_ = "constrained" => \A n \in 1..Len(edges) : edges[n].kind \in ConstrainedKinds
    /\ filter_ = "rbcd" => \A n \in 1..Len(edges) : edges[n].kind = "rbcd"
    /\ filter_ \in {"unconstrained", "constrained"} =>
          \A n \in 1..Len(calls) : calls[n].fn = "query"
    /\ filter_ \notin Filters => calls = <<>> /\ edges = <<>> /\ displayed = <<>>

C19_Witness ==
    /\ Printing /\ DelegationsDone
    /\ filter_ = "constrained"
    /\ \E k \in 1..Len(entries) :
          /\ Readable(k)
          /\ entries[k].tfd
          /\ entries[k].delegate # <<>>
          /\ entries[k].act.kind = "dacl"
          /\ entries[k].act.aces # <<>>
          /\ Len(edges) = Len(entries[k].delegate)

\* ------------------------------------------------------ claims, list_trusts
TrustsDone == ltpc = "done"

\* C20: list_trusts with verbose=True writes out every record the query
\* returned, trustDirection and trustType translated to their names, also
\* when the query returns a lazy single-pass sequence.
C20_VerboseShowsEveryTrust ==
    TrustsDone /\ verbose =>
        /\ Len(displayed) = Len(results)
        /\ \A n \in 1..Len(displayed) : displayed[n] = Translated(results[n])

\* -------------------------------------------------- claims, misc_enum_users
EnumUsersDone == eupc = "done"

\* the lines of a file: what stands between two ends of line, and what
\* stands after the last one when the file does not end with one
RECURSIVE FileLines(_)
FileLines(f) ==
    IF f = <<>> THEN <<>>
    ELSE LET raw == readline(f, 0)
             text == IF raw[Len(raw)] = "\n" THEN DropLast(raw) ELSE raw
         IN  <<text>> \o FileLines(SubSeq(f, Len(raw) + 1, Len(f)))

\* the usernames a file lists: its lines that are not empty
Usernames(f) == LET Test(text) == text # <<>> IN SelectSeq(FileLines(f), Test)

\* C21: misc_enum_users tries every username of the file, in the order of
\* the file and as written, and prints those engine.user_exists is true
\* for, also with an empty line between usernames and with a last line
\* without end of line.
C21_EveryUsernameTried ==
    EnumUsersDone =>
        /\ tried = Usernames(file)
        /\ found = LET Exists(name) == name \in existing IN SelectSeq(tried, Exists)

\* --------------------------------------------------------- claims, misc_all
AllDone == mapc = "done"

\* the invocations of one command with one filter value: not verbose to the
\* .lst file, then verbose to the .json file when the command has the option
PlanOf(c, command, f) ==
    <<Invocation(command, f, FALSE, <<command, f, "lst">>)>>
    \o (IF c.hasVerbose
        THEN <<Invocation(command, f, TRUE, <<command, f, "json">>)>>
        ELSE <<>>)

RECURSIVE PlanFrom(_, _, _)
PlanFrom(cs, command, f) ==
    IF command > Len(cs) THEN <<>>
    ELSE IF ~cs[command].hasFilter
         THEN PlanOf(cs[command], command, NoFilter) \o PlanFrom(cs, command + 1, 1)
    ELSE IF f > cs[command].filters THEN PlanFrom(cs, command + 1, 1)
    ELSE PlanOf(cs[command], command, f) \o PlanFrom(cs, command, f + 1)

\* C22: misc_all invokes every list_ command, for each of its filter values
\* when it has the option, first not verbose to the .lst file and then, when
\* it has the verbose option, verbose to the .json file; kwargs["verbose"] is
\* false again before the next invocation, so every invocation to a .lst file
\* runs with verbose false.
C22_VerboseRestored ==
    /\ \A n \in 1..Len(invoked) :
          invoked[n].verbose = (invoked[n].stdout[3] = "json")
    /\ mapc = "plain" => ~kwverbose
    /\ AllDone => invoked = PlanFrom(commands, 1, 1)

C22_Witness ==
    /\ AllDone
    /\ Len(commands) = 2
    /\ commands[1].hasFilter /\ commands[1].filters = 2 /\ commands[1].hasVerbose
    /\ ~commands[2].hasVerbose
    /\ Len(invoked) = 5

====
